---- MODULE Spec2Model ----
(***************************************************************************)
(* A model of the type calculator: the Environment registry                *)
(* (src/environment/mod.rs), the command interpreter (src/lib.rs) and the  *)
(* driver loop (src/main.rs).                                              *)
(*                                                                         *)
(* A line of text is a sequence of pieces: a piece is either one           *)
(* whitespace character (" " or "\n") or one maximal run of non-whitespace *)
(* characters (a word).  Two words of a line are always separated by at    *)
(* least one whitespace piece.                                             *)
(***************************************************************************)
EXTENDS Naturals, Sequences, FiniteSets, TLC

(***************************************************************************)
(* Bounds of the model.                                                    *)
(***************************************************************************)
\* the largest number of argument tokens after the command word of a line
MaxArgs == 3
\* the number of lines the driver reads in one session
MaxLines == 2

(***************************************************************************)
(* Types and errors.                                                       *)
(***************************************************************************)
\* enum Type { Int, Float, Bool }
Type == {"Type::Int", "Type::Float", "Type::Bool"}

\* enum Error { TypeError, UndeclaredFunction, UndeclaredVariable }
Error == {"Error::TypeError", "Error::UndeclaredFunction", "Error::UndeclaredVariable"}

\* Result<T, E>
Ok(v) == [kind |-> "Ok", val |-> v]
Err(e) == [kind |-> "Err", val |-> e]
\* no result: process_input has not been called in this iteration
NoResult == [kind |-> "None", val |-> ""]

\* impl FromStr for Type
from_str(s) ==
    CASE s = "Int" -> Ok("Type::Int")
      [] s = "Float" -> Ok("Type::Float")
      [] s = "Bool" -> Ok("Type::Bool")
      [] OTHER -> Err("()")

\* #[derive(Debug)] for Type: the text "{:?}" writes
Debug(t) ==
    CASE t = "Type::Int" -> "Int"
      [] t = "Type::Float" -> "Float"
      [] t = "Type::Bool" -> "Bool"

\* the text "{:#?}" writes: the pretty form of a unit variant is its name
DebugPretty(t) == Debug(t)

(***************************************************************************)
(* HashMap<String, V> as a function on its key set.                        *)
(***************************************************************************)
EmptyMap == [k \in {} |-> "Type::Int"]

\* HashMap::insert: the value of key k is v afterwards, other keys are kept
insert(m, k, v) == [x \in DOMAIN m \cup {k} |-> IF x = k THEN v ELSE m[x]]

\* HashMap::get: Some(v) or None
get(m, k) == IF k \in DOMAIN m THEN [some |-> TRUE, val |-> m[k]]
             ELSE [some |-> FALSE, val |-> ""]

(***************************************************************************)
(* Environment (src/environment/mod.rs).                                   *)
(* A signature (Type, Vec<Type>) is the pair <<return type, parameters>>.  *)
(***************************************************************************)
\* Environment::new
new ==
    [variables |-> EmptyMap,
     functions |->
        [f \in {"add", "sub", "mul", "div", "and"} |->
            CASE f = "add" -> <<"Type::Int", <<"Type::Int">>>>
              [] f = "sub" -> <<"Type::Int", <<"Type::Int">>>>
              [] f = "mul" -> <<"Type::Int", <<"Type::Int">>>>
              [] f = "div" -> <<"Type::Float", <<"Type::Int">>>>
              [] f = "and" -> <<"Type::Bool", <<"Type::Bool">>>>]]

\* a variant of Environment::declare_variable in which the variable shadows
\* the function of the same name, which is removed
Environment_declare_variable_shadow(env, name, var_type) ==
    [variables |-> insert(env.variables, name, var_type),
     functions |-> [f \in DOMAIN env.functions \ {name} |-> env.functions[f]]]

\* a variant of Environment::declare_variable that builds the map anew with
\* the one entry
Environment_declare_variable_reset(env, name, var_type) ==
    [env EXCEPT !.variables = insert(EmptyMap, name, var_type)]

\* Environment::declare_variable
Environment_declare_variable(env, name, var_type) ==
    [env EXCEPT !.variables = insert(env.variables, name, var_type)]

\* a variant of Environment::declare_function that stores the two types in
\* the other order
Environment_declare_function_swapped(env, name, input_type, output_type) ==
    [env EXCEPT !.functions =
        insert(env.functions, name, <<input_type, <<output_type>>>>)]

\* a variant of Environment::declare_function that keeps the signature a name
\* already has (entry().or_insert)
Environment_declare_function_keep(env, name, input_type, output_type) ==
    IF name \in DOMAIN env.functions THEN env
    ELSE [env EXCEPT !.functions =
            insert(env.functions, name, <<output_type, <<input_type>>>>)]

\* a variant of Environment::declare_function that stores both types as
\* parameters
Environment_declare_function_two(env, name, input_type, output_type) ==
    [env EXCEPT !.functions =
        insert(env.functions, name, <<output_type, <<input_type, output_type>>>>)]

\* a variant of Environment::declare_function in which the function replaces
\* the variable of the same name, which is removed
Environment_declare_function_unshadow(env, name, input_type, output_type) ==
    [variables |-> [n \in DOMAIN env.variables \ {name} |-> env.variables[n]],
     functions |-> insert(env.functions, name, <<output_type, <<input_type>>>>)]

\* Environment::declare_function
Environment_declare_function(env, name, input_type, output_type) ==
    [env EXCEPT !.functions =
        insert(env.functions, name, <<output_type, <<input_type>>>>)]

\* a variant of Environment::call_function without the length check, which
\* compares the arguments and the parameters pairwise (zip)
Environment_call_function_zip(env, name, args) ==
    LET sig == get(env.functions, name) IN
    IF sig.some
    THEN LET return_type == sig.val[1]
             input_types == sig.val[2]
             n == IF Len(args) < Len(input_types) THEN Len(args) ELSE Len(input_types)
         IN IF \E i \in 1..n : args[i] # input_types[i]
            THEN Err("Error::TypeError")
            ELSE Ok(return_type)
    ELSE Err("Error::UndeclaredFunction")

\* a variant of Environment::call_function that reports an absent name as a
\* TypeError
Environment_call_function_absent(env, name, args) ==
    LET sig == get(env.functions, name) IN
    IF sig.some
    THEN LET return_type == sig.val[1]
             input_types == sig.val[2]
         IN IF Len(input_types) # Len(args)
            THEN Err("Error::TypeError")
            ELSE IF \E i \in 1..Len(args) : args[i] # input_types[i]
                 THEN Err("Error::TypeError")
                 ELSE Ok(return_type)
    ELSE Err("Error::TypeError")

\* Environment::call_function
Environment_call_function(env, name, args) ==
    LET sig == get(env.functions, name) IN
    IF sig.some
    THEN LET return_type == sig.val[1]
             input_types == sig.val[2]
         IN IF Len(input_types) # Len(args)
            THEN Err("Error::TypeError")
            ELSE IF \E i \in 1..Len(args) : args[i] # input_types[i]
                 THEN Err("Error::TypeError")
                 ELSE Ok(return_type)
    ELSE Err("Error::UndeclaredFunction")

(***************************************************************************)
(* Command interpreter (src/lib.rs).  A handler takes the argument tokens  *)
(* of the command and the Environment, and yields the result it returns    *)
(* and the Environment it leaves.                                          *)
(***************************************************************************)
Return(result, env) == [result |-> result, env |-> env]

\* a variant of the match that also takes the type names in lower case
match_type_lowercase(token) ==
    CASE token \in {"Int", "int"} -> Ok("Type::Int")
      [] token \in {"Float", "float"} -> Ok("Type::Float")
      [] token \in {"Bool", "bool"} -> Ok("Type::Bool")
      [] OTHER -> Err("Error::TypeError")

\* the inline `match input[i] { "Int" => .., "Float" => .., "Bool" => .., _ => return Err }`
match_type(token) ==
    CASE token = "Int" -> Ok("Type::Int")
      [] token = "Float" -> Ok("Type::Float")
      [] token = "Bool" -> Ok("Type::Bool")
      [] OTHER -> Err("Error::TypeError")

\* a variant of the loop that looks a token up as a variable first and parses
\* it as a type literal only when no variable has that name
RECURSIVE convert_args_variable_first(_, _, _)
convert_args_variable_first(args, env, converted_args) ==
    IF args = <<>>
    THEN Ok(converted_args)
    ELSE LET arg == Head(args)
             parsed == from_str(arg)
             looked == get(env.variables, arg)
         IN IF looked.some
            THEN convert_args_variable_first(Tail(args), env,
                                             Append(converted_args, looked.val))
            ELSE IF parsed.kind = "Ok"
                 THEN convert_args_variable_first(Tail(args), env,
                                                  Append(converted_args, parsed.val))
                 ELSE Err("Error::UndeclaredVariable")

\* the loop of call_function over the argument tokens: a type literal first,
\* then a declared variable, else the early return
RECURSIVE convert_args(_, _, _)
convert_args(args, env, converted_args) ==
    IF args = <<>>
    THEN Ok(converted_args)
    ELSE LET arg == Head(args)
             parsed == from_str(arg)
             looked == get(env.variables, arg)
         IN IF parsed.kind = "Ok"
            THEN convert_args(Tail(args), env, Append(converted_args, parsed.val))
            ELSE IF looked.some
                 THEN convert_args(Tail(args), env, Append(converted_args, looked.val))
                 ELSE Err("Error::UndeclaredVariable")

\* a variant of call_function that looks the function up before it resolves
\* the argument tokens
call_function_lookup_first(input, env) ==
    IF Len(input) < 1
    THEN Return(Err("Error::TypeError"), env)
    ELSE LET func_name == input[1]
             args == Tail(input)
             converted == convert_args(args, env, <<>>)
         IN IF ~get(env.functions, func_name).some
            THEN Return(Err("Error::UndeclaredFunction"), env)
            ELSE IF converted.kind = "Err"
            THEN Return(converted, env)
            ELSE LET called == Environment_call_function(env, func_name, converted.val)
                 IN IF called.kind = "Ok"
                    THEN Return(Ok("Called function " \o func_name
                                   \o " with return type " \o Debug(called.val)), env)
                    ELSE Return(called, env)

\* a variant of call_function that records the return type of a successful
\* call as the variable of the function's name
call_function_records(input, env) ==
    IF Len(input) < 1
    THEN Return(Err("Error::TypeError"), env)
    ELSE LET func_name == input[1]
             args == Tail(input)
             converted == convert_args(args, env, <<>>)
         IN IF converted.kind = "Err"
            THEN Return(converted, env)
            ELSE LET called == Environment_call_function(env, func_name, converted.val)
                 IN IF called.kind = "Ok"
                    THEN Return(Ok("Called function " \o func_name
                                   \o " with return type " \o Debug(called.val)),
                                Environment_declare_variable(env, func_name, called.val))
                    ELSE Return(called, env)

\* fn call_function(input, env)
call_function(input, env) ==
    IF Len(input) < 1
    THEN Return(Err("Error::TypeError"), env)
    ELSE LET func_name == input[1]
             args == Tail(input)
             converted == convert_args(args, env, <<>>)
         IN IF converted.kind = "Err"
            THEN Return(converted, env)
            ELSE LET called == Environment_call_function(env, func_name, converted.val)
                 IN IF called.kind = "Ok"
                    THEN Return(Ok("Called function " \o func_name
                                   \o " with return type " \o Debug(called.val)), env)
                    ELSE Return(called, env)

\* a variant of declare_variable that rejects fewer than two tokens only
declare_variable_at_least(input, env) ==
    IF Len(input) < 2
    THEN Return(Err("Error::TypeError"), env)
    ELSE LET var_name == input[1]
             var_type == match_type(input[2])
         IN IF var_type.kind = "Err"
            THEN Return(var_type, env)
            ELSE Return(Ok(var_name \o " :: " \o Debug(var_type.val)),
                        Environment_declare_variable(env, var_name, var_type.val))

\* fn declare_variable(input, env)
declare_variable(input, env) ==
    IF Len(input) # 2
    THEN Return(Err("Error::TypeError"), env)
    ELSE LET var_name == input[1]
             var_type == match_type(input[2])
         IN IF var_type.kind = "Err"
            THEN Return(var_type, env)
            ELSE Return(Ok(var_name \o " :: " \o Debug(var_type.val)),
                        Environment_declare_variable(env, var_name, var_type.val))

\* a variant of declare_function that registers the name as soon as the input
\* type is known, before the output type is parsed
declare_function_early(input, env) ==
    IF Len(input) # 3
    THEN Return(Err("Error::TypeError"), env)
    ELSE LET func_name == input[1]
             input_type == match_type(input[2])
             output_type == match_type(input[3])
         IN IF input_type.kind = "Err"
            THEN Return(input_type, env)
            ELSE IF output_type.kind = "Err"
                 THEN Return(output_type,
                             Environment_declare_function(env, func_name,
                                 input_type.val, input_type.val))
                 ELSE Return(Ok(func_name \o " :: " \o DebugPretty(input_type.val)
                                \o " -> " \o Debug(output_type.val)),
                             Environment_declare_function(env, func_name,
                                 input_type.val, output_type.val))

\* fn declare_function(input, env)
declare_function(input, env) ==
    IF Len(input) # 3
    THEN Return(Err("Error::TypeError"), env)
    ELSE LET func_name == input[1]
             input_type == match_type(input[2])
             output_type == match_type(input[3])
         IN IF input_type.kind = "Err"
            THEN Return(input_type, env)
            ELSE IF output_type.kind = "Err"
                 THEN Return(output_type, env)
                 ELSE Return(Ok(func_name \o " :: " \o DebugPretty(input_type.val)
                                \o " -> " \o Debug(output_type.val)),
                             Environment_declare_function(env, func_name,
                                 input_type.val, output_type.val))

\* input_types.iter().map(|t| format!("{:?}", t)).collect().join(" -> ")
RECURSIVE join_types(_)
join_types(input_types) ==
    IF input_types = <<>> THEN ""
    ELSE IF Len(input_types) = 1 THEN Debug(input_types[1])
    ELSE Debug(Head(input_types)) \o " -> " \o join_types(Tail(input_types))

\* a variant of show_declaration that renders the return type of a function
\* before its parameters
show_declaration_return_first(input, env) ==
    IF Len(input) # 1
    THEN Return(Err("Error::TypeError"), env)
    ELSE LET name == input[1]
             var == get(env.variables, name)
             fun == get(env.functions, name)
         IN IF var.some
            THEN Return(Ok(name \o " :: " \o Debug(var.val)), env)
            ELSE IF fun.some
                 THEN Return(Ok(name \o " :: " \o Debug(fun.val[1])
                                \o " -> " \o join_types(fun.val[2])), env)
                 ELSE Return(Err("Error::UndeclaredVariable"), env)

\* a variant of show_declaration that looks the name up as a function first
show_declaration_function_first(input, env) ==
    IF Len(input) # 1
    THEN Return(Err("Error::TypeError"), env)
    ELSE LET name == input[1]
             var == get(env.variables, name)
             fun == get(env.functions, name)
         IN IF fun.some
            THEN Return(Ok(name \o " :: " \o join_types(fun.val[2])
                           \o " -> " \o Debug(fun.val[1])), env)
            ELSE IF var.some
                 THEN Return(Ok(name \o " :: " \o Debug(var.val)), env)
                 ELSE Return(Err("Error::UndeclaredVariable"), env)

\* a variant of show_declaration that looks the name up as a variable only
show_declaration_variables_only(input, env) ==
    IF Len(input) # 1
    THEN Return(Err("Error::TypeError"), env)
    ELSE LET name == input[1]
             var == get(env.variables, name)
         IN IF var.some
            THEN Return(Ok(name \o " :: " \o Debug(var.val)), env)
            ELSE Return(Err("Error::UndeclaredVariable"), env)

\* fn show_declaration(input, env)
show_declaration(input, env) ==
    IF Len(input) # 1
    THEN Return(Err("Error::TypeError"), env)
    ELSE LET name == input[1]
             var == get(env.variables, name)
             fun == get(env.functions, name)
         IN IF var.some
            THEN Return(Ok(name \o " :: " \o Debug(var.val)), env)
            ELSE IF fun.some
                 THEN Return(Ok(name \o " :: " \o join_types(fun.val[2])
                                \o " -> " \o Debug(fun.val[1])), env)
                 ELSE Return(Err("Error::UndeclaredVariable"), env)

\* the whitespace characters of a line
IsWhitespace(p) == p \in {" ", "\n"}

\* str::split_whitespace: the words of the line, in order
split_whitespace(s) == SelectSeq(s, LAMBDA p : ~IsWhitespace(p))

\* str::trim: the line without its leading and trailing whitespace
RECURSIVE trim_start(_)
trim_start(s) ==
    IF s # <<>> /\ IsWhitespace(Head(s)) THEN trim_start(Tail(s)) ELSE s

RECURSIVE trim_end(_)
trim_end(s) ==
    IF s # <<>> /\ IsWhitespace(s[Len(s)]) THEN trim_end(SubSeq(s, 1, Len(s) - 1)) ELSE s

trim(s) == trim_end(trim_start(s))

\* a variant of process_input without the early return for a line that has
\* no token, which then matches no command
process_input_no_empty(input, env) ==
    LET tokens == split_whitespace(input) IN
    IF tokens = <<>>
    THEN Return(Err("Error::TypeError"), env)
    ELSE CASE tokens[1] = "declare_var" -> declare_variable(Tail(tokens), env)
           [] tokens[1] = "declare_func" -> declare_function(Tail(tokens), env)
           [] tokens[1] = "call" -> call_function(Tail(tokens), env)
           [] tokens[1] = "show" -> show_declaration(Tail(tokens), env)
           [] OTHER -> Return(Err("Error::TypeError"), env)

\* a variant of process_input that ignores a line whose first word is no
\* command
process_input_ignore_unknown(input, env) ==
    LET tokens == split_whitespace(input) IN
    IF tokens = <<>>
    THEN Return(Ok(""), env)
    ELSE CASE tokens[1] = "declare_var" -> declare_variable(Tail(tokens), env)
           [] tokens[1] = "declare_func" -> declare_function(Tail(tokens), env)
           [] tokens[1] = "call" -> call_function(Tail(tokens), env)
           [] tokens[1] = "show" -> show_declaration(Tail(tokens), env)
           [] OTHER -> Return(Ok(""), env)

\* pub fn process_input(input, env)
process_input(input, env) ==
    LET tokens == split_whitespace(input) IN
    IF tokens = <<>>
    THEN Return(Ok(""), env)
    ELSE CASE tokens[1] = "declare_var" -> declare_variable(Tail(tokens), env)
           [] tokens[1] = "declare_func" -> declare_function(Tail(tokens), env)
           [] tokens[1] = "call" -> call_function(Tail(tokens), env)
           [] tokens[1] = "show" -> show_declaration(Tail(tokens), env)
           [] OTHER -> Return(Err("Error::TypeError"), env)

(***************************************************************************)
(* The lines the user types.                                               *)
(***************************************************************************)
\* the command words of process_input
CommandWords == {"declare_var", "declare_func", "call", "show"}

\* the sentinels of the driver
SentinelWords == {"quit", "exit"}

\* a first word that is neither
OtherWords == {"nonsense_command"}

\* the words after the first: type names and identifiers
ArgWords == {"Int", "Bool", "add", "x"}

ArgSeqs == UNION {[1..n -> ArgWords] : n \in 0..MaxArgs}

\* the words, one space between two of them
RECURSIVE Join(_)
Join(words) ==
    IF Len(words) <= 1 THEN words
    ELSE <<Head(words), " ">> \o Join(Tail(words))

\* the words, two spaces between two of them, one before and one after
RECURSIVE Padded(_)
Padded(words) ==
    IF words = <<>> THEN <<" ">>
    ELSE <<" ", Head(words), " ">> \o Padded(Tail(words))

BlankLines == {<<>>, <<" ">>, <<" ", " ">>}

ShortArgSeqs == {a \in ArgSeqs : Len(a) <= 1}

Lines ==
    {Join(<<c>> \o a) : c \in CommandWords \cup OtherWords, a \in ArgSeqs}
    \cup {Join(<<c>> \o a) : c \in SentinelWords, a \in ShortArgSeqs}
    \cup {Padded(<<c>> \o a) : c \in CommandWords \cup SentinelWords \cup OtherWords,
                               a \in ShortArgSeqs}
    \cup BlankLines

\* the first word of a line, "" when the line has no word
FirstWord(line) ==
    IF split_whitespace(line) = <<>> THEN "" ELSE split_whitespace(line)[1]

\* the lines by their first word
NoWordLines == {line \in Lines : FirstWord(line) = ""}
DeclareVarLines == {line \in Lines : FirstWord(line) = "declare_var"}
DeclareFuncLines == {line \in Lines : FirstWord(line) = "declare_func"}
CallLines == {line \in Lines : FirstWord(line) = "call"}
ShowLines == {line \in Lines : FirstWord(line) = "show"}
OtherLines == {line \in Lines : FirstWord(line) \notin CommandWords \cup {""}}

(***************************************************************************)
(* The driver (src/main.rs, fn main): one Environment for the session; an  *)
(* iteration reads a line, trims it, stops at a sentinel, and otherwise    *)
(* hands the line to process_input and prints what it returns.             *)
(***************************************************************************)
VARIABLES
    variables,  \* env.variables
    functions,  \* env.functions
    input,      \* the trimmed line of this iteration
    result,     \* what process_input returned in this iteration
    pc,         \* "prompt": about to read; "print": about to print; "done"
    nlines      \* the number of lines read so far

vars == <<variables, functions, input, result, pc, nlines>>

env == [variables |-> variables, functions |-> functions]

Init ==
    /\ variables = new.variables
    /\ functions = new.functions
    /\ input = <<>>
    /\ result = NoResult
    /\ pc = "prompt"
    /\ nlines = 0

\* the loop is at its top and the session may read one more line
CanRead == pc = "prompt" /\ nlines < MaxLines

\* io::stdin().read_line(&mut input); let input = input.trim();
ReadLine(line) ==
    /\ nlines' = nlines + 1
    /\ input' = trim(line \o <<"\n">>)

IsSentinel(s) == s = <<"quit">> \/ s = <<"exit">>

\* match process_input(input, &mut env): the line is no sentinel, the
\* interpreter handles it and the iteration goes on to print the result
Process(line, words) ==
    /\ ReadLine(line)
    /\ ~IsSentinel(input')
    /\ FirstWord(input') \in words
    /\ LET r == process_input(input', env) IN
        /\ result' = r.result
        /\ variables' = r.env.variables
        /\ functions' = r.env.functions
    /\ pc' = "print"

\* if input == "quit" || input == "exit" { break; }
Quit ==
    /\ CanRead
    /\ \E line \in OtherLines :
        /\ ReadLine(line)
        /\ IsSentinel(input')
    /\ pc' = "done"
    /\ UNCHANGED <<variables, functions, result>>

\* a line with no word: process_input returns Ok("")
EmptyLine ==
    /\ CanRead
    /\ \E line \in NoWordLines : Process(line, {""})

\* "declare_var" => declare_variable(&tokens[1..], env)
DeclareVar ==
    /\ CanRead
    /\ \E line \in DeclareVarLines : Process(line, {"declare_var"})

\* "declare_func" => declare_function(&tokens[1..], env)
DeclareFunc ==
    /\ CanRead
    /\ \E line \in DeclareFuncLines : Process(line, {"declare_func"})

\* "call" => call_function(&tokens[1..], env)
Call ==
    /\ CanRead
    /\ \E line \in CallLines : Process(line, {"call"})

\* "show" => show_declaration(&tokens[1..], &*env)
Show ==
    /\ CanRead
    /\ \E line \in ShowLines : Process(line, {"show"})

\* _ => Err(Error::TypeError)
UnknownCommand ==
    /\ CanRead
    /\ \E line \in OtherLines : Process(line, SentinelWords \cup OtherWords)

\* Ok(output) => if !output.is_empty() { println!(..) }; the iteration ends and
\* its line and result are dropped
PrintOk ==
    /\ pc = "print"
    /\ result.kind = "Ok"
    /\ pc' = "prompt"
    /\ input' = <<>>
    /\ result' = NoResult
    /\ UNCHANGED <<variables, functions, nlines>>

\* a variant of the Err arm that ends the session
PrintErr_fatal ==
    /\ pc = "print"
    /\ result.kind = "Err"
    /\ pc' = "done"
    /\ UNCHANGED <<variables, functions, input, result, nlines>>

\* Err(err) => println!("Error: {}", err); the iteration ends
PrintErr ==
    /\ pc = "print"
    /\ result.kind = "Err"
    /\ pc' = "prompt"
    /\ input' = <<>>
    /\ result' = NoResult
    /\ UNCHANGED <<variables, functions, nlines>>

Next ==
    \/ Quit
    \/ EmptyLine
    \/ DeclareVar
    \/ DeclareFunc
    \/ Call
    \/ Show
    \/ UnknownCommand
    \/ PrintOk
    \/ PrintErr

Spec == Init /\ [][Next]_vars

(***************************************************************************)
(* Vocabulary of the properties.                                           *)
(***************************************************************************)
\* the tokens of the line of this iteration
Tokens == split_whitespace(input)

\* process_input has returned for the line of this iteration
Handled == pc = "print"

\* the result of the command made of these words, were it the next line
Try(words) == process_input(Join(words), env).result

\* the result and the Environment of the command made of these words in e
ResultIn(words, e) == process_input(Join(words), e).result

EnvAfter(words, e) == process_input(Join(words), e).env

\* names a command may mention: built-ins, identifiers, a type name and a
\* name no line of the session declares
ProbeNames == {"add", "div", "x", "Int", "ghost"}

\* the three type names and the Type each one names
TypeNames == {"Int", "Float", "Bool"}

TypeNamed(name) ==
    CASE name = "Int" -> "Type::Int"
      [] name = "Float" -> "Type::Float"
      [] name = "Bool" -> "Type::Bool"

\* the text a successful call of f reports for the return type named ret
Called(f, ret) == Ok("Called function " \o f \o " with return type " \o ret)

\* the Environment after the step
envNext == [variables |-> variables', functions |-> functions']

\* the result of the command made of these words, were it the line after the step
TryNext(words) == process_input(Join(words), envNext).result

\* argument tokens of the probes: type names, identifiers, an unknown name
ProbeArgs == {"Int", "Float", "x", "ghost"}

ProbeArgSeqs == UNION {[1..n -> ProbeArgs] : n \in 0..2}

TypeError == Err("Error::TypeError")
UndeclaredFunction == Err("Error::UndeclaredFunction")
UndeclaredVariable == Err("Error::UndeclaredVariable")

(***************************************************************************)
(* C1: after a successful `declare_func f T_in T_out`, `call f T_in`       *)
(* succeeds and reports return type T_out, and `call f T_other` fails with *)
(* TypeError for every Type T_other other than T_in.                       *)
(***************************************************************************)
C1_DeclaredFunctionIsCallable ==
    (Handled /\ Len(Tokens) = 4 /\ Tokens[1] = "declare_func" /\ result.kind = "Ok")
    => LET f == Tokens[2]
           t_in == Tokens[3]
           t_out == Tokens[4]
       IN /\ Try(<<"call", f, t_in>>) = Called(f, t_out)
          /\ \A t_other \in TypeNames \ {t_in} :
                Try(<<"call", f, t_other>>) = TypeError

\* the same of every name and every pair of types, declared in the
\* Environment the session has reached
C1_EveryDeclaration ==
    pc = "prompt" =>
        \A f \in ProbeNames, t_in \in TypeNames, t_out \in TypeNames :
            LET declare == <<"declare_func", f, t_in, t_out>>
                after == EnvAfter(declare, env)
            IN /\ ResultIn(declare, env).kind = "Ok"
               /\ ResultIn(<<"call", f, t_in>>, after) = Called(f, t_out)
               /\ \A t_other \in TypeNames \ {t_in} :
                    ResultIn(<<"call", f, t_other>>, after) = TypeError

\* C1: a declared function accepts exactly its input type and reports its
\* output type, in the session and for every name and pair of types
C1_DeclareThenCall == C1_DeclaredFunctionIsCallable /\ C1_EveryDeclaration

C1_Witness ==
    /\ Handled
    /\ Tokens = <<"declare_func", "x", "Bool", "Int">>
    /\ result = Ok("x :: Bool -> Int")
    /\ Try(<<"call", "x", "Bool">>) = Called("x", "Int")
    /\ Try(<<"call", "x", "Int">>) = TypeError

(***************************************************************************)
(* C2: after a successful `declare_var n T`, `show n` succeeds and renders *)
(* `n :: T`, also when n is a declared function and when n was a variable  *)
(* of another type before.                                                 *)
(***************************************************************************)
C2_DeclaredVariableIsShown ==
    (Handled /\ Len(Tokens) = 3 /\ Tokens[1] = "declare_var" /\ result.kind = "Ok")
    => LET n == Tokens[2]
           t == Tokens[3]
       IN /\ t \in TypeNames
          /\ Try(<<"show", n>>) = Ok(n \o " :: " \o t)

C2_EveryDeclaration ==
    pc = "prompt" =>
        \A n \in ProbeNames, t \in TypeNames :
            LET declare == <<"declare_var", n, t>>
            IN /\ ResultIn(declare, env).kind = "Ok"
               /\ ResultIn(<<"show", n>>, EnvAfter(declare, env)) = Ok(n \o " :: " \o t)

\* C2: a declared variable is shown as `n :: T`, in the session and for every
\* name and type
C2_DeclareThenShow == C2_DeclaredVariableIsShown /\ C2_EveryDeclaration

C2_Witness ==
    /\ Handled
    /\ Tokens = <<"declare_var", "add", "Bool">>
    /\ result.kind = "Ok"
    /\ "add" \in DOMAIN functions
    /\ "add" \in DOMAIN variables
    /\ Try(<<"show", "add">>) = Ok("add :: Bool")

(***************************************************************************)
(* C3: a freshly constructed Environment has no variable and exactly the   *)
(* built-in functions add, sub, mul: Int <- [Int], div: Float <- [Int],    *)
(* and: Bool <- [Bool]; there `call f T` succeeds with the return type of  *)
(* f exactly when T is the parameter type of f and fails with TypeError    *)
(* otherwise, and `call f` without argument fails with TypeError.          *)
(***************************************************************************)
BuiltinNames == {"add", "sub", "mul", "div", "and"}

BuiltinReturn(f) == IF f = "div" THEN "Float" ELSE IF f = "and" THEN "Bool" ELSE "Int"

BuiltinParameter(f) == IF f = "and" THEN "Bool" ELSE "Int"

\* what a call of the built-in f with these argument tokens returns
BuiltinCall(f, args) ==
    IF args = <<BuiltinParameter(f)>> THEN Called(f, BuiltinReturn(f)) ELSE TypeError

C3_FreshEnvironment ==
    /\ nlines = 0 =>
        /\ DOMAIN variables = {}
        /\ DOMAIN functions = BuiltinNames
        /\ \A f \in BuiltinNames :
            /\ functions[f] = <<TypeNamed(BuiltinReturn(f)), <<TypeNamed(BuiltinParameter(f))>>>>
            /\ Try(<<"call", f>>) = BuiltinCall(f, <<>>)
            /\ \A t \in TypeNames : Try(<<"call", f, t>>) = BuiltinCall(f, <<t>>)
    /\ (/\ nlines = 1
        /\ Handled
        /\ Len(Tokens) \in {2, 3}
        /\ Tokens[1] = "call"
        /\ Tokens[2] \in BuiltinNames
        /\ \A i \in 3..Len(Tokens) : Tokens[i] \in TypeNames)
       => result = BuiltinCall(Tokens[2], SubSeq(Tokens, 3, Len(Tokens)))

C3_Witness ==
    /\ nlines = 1
    /\ Handled
    /\ Tokens = <<"call", "add", "Int">>
    /\ result = Called("add", "Int")
    /\ Try(<<"call", "add", "Float">>) = TypeError
    /\ Try(<<"call", "add">>) = TypeError
    /\ Try(<<"call", "div", "Int">>) = Called("div", "Float")

(***************************************************************************)
(* C4: a `call <name> <arg>...` whose name is not a declared function.     *)
(***************************************************************************)
\* the step handles a call of a name that is no key of functions
CallOfUndeclared ==
    /\ pc' = "print"
    /\ Len(Tokens') >= 2
    /\ Tokens'[1] = "call"
    /\ Tokens'[2] \notin DOMAIN functions

\* the argument token is a type literal or a declared variable
Resolves(token, e) == token \in TypeNames \/ token \in DOMAIN e.variables

\* C4 as stated: a call of a name absent from the function registry fails with
\* UndeclaredFunction for every sequence of argument tokens
C4_Original == [][CallOfUndeclared => result' = UndeclaredFunction]_vars

C4_EveryCall ==
    pc = "prompt" =>
        \A f \in ProbeNames \ DOMAIN functions, args \in ProbeArgSeqs :
            Try(<<"call", f>> \o args) =
                IF \A i \in 1..Len(args) : Resolves(args[i], env)
                THEN UndeclaredFunction ELSE UndeclaredVariable

\* C4 amended: a call of a name absent from the function registry fails with
\* UndeclaredFunction when every argument token is a type literal or a declared
\* variable, and with UndeclaredVariable when some argument token is neither
C4_UndeclaredFunction ==
    /\ []C4_EveryCall
    /\ [][CallOfUndeclared =>
            result' = IF \A i \in 3..Len(Tokens') : Resolves(Tokens'[i], env)
                      THEN UndeclaredFunction ELSE UndeclaredVariable]_vars

C4_Witness ==
    /\ Handled
    /\ Tokens = <<"call", "x", "Int", "x">>
    /\ "x" \in DOMAIN variables
    /\ "x" \notin DOMAIN functions
    /\ result = UndeclaredFunction

(***************************************************************************)
(* C5: an error leaves the Environment as it was.                          *)
(***************************************************************************)
\* tokens that name no type
BadTypeTokens == {"int", "INT", "x", "Floa"}

C5_BadOutputType ==
    pc = "prompt" =>
        \A f \in ProbeNames, t_in \in TypeNames, bad \in BadTypeTokens :
            process_input(Join(<<"declare_func", f, t_in, bad>>), env)
                = Return(TypeError, env)

\* C5: whenever process_input returns an error, variables and functions are what
\* they were before the call; a declare_func with a valid input type and an
\* invalid output type inserts nothing
C5_ErrorLeavesEnvironment ==
    /\ []C5_BadOutputType
    /\ [][(pc' = "print" /\ result'.kind = "Err")
            => (variables' = variables /\ functions' = functions)]_vars

C5_Witness ==
    /\ Handled
    /\ Tokens = <<"declare_func", "x", "Int", "x">>
    /\ result = TypeError
    /\ "x" \notin DOMAIN functions
    /\ "x" \in DOMAIN variables

(***************************************************************************)
(* C6: redeclaring a function is last-write-wins.                          *)
(***************************************************************************)
\* the step handles a well-formed declare_func of a name that is a function
Redeclaration ==
    /\ pc' = "print"
    /\ Len(Tokens') = 4
    /\ Tokens'[1] = "declare_func"
    /\ Tokens'[2] \in DOMAIN functions
    /\ Tokens'[3] \in TypeNames
    /\ Tokens'[4] \in TypeNames

\* the stored signature of f is the one declared and calls are checked against it
SignatureIs(f, t_in, t_out, e) ==
    /\ e.functions[f] = <<TypeNamed(t_out), <<TypeNamed(t_in)>>>>
    /\ ResultIn(<<"call", f, t_in>>, e) = Called(f, t_out)
    /\ \A t_other \in TypeNames \ {t_in} : ResultIn(<<"call", f, t_other>>, e) = TypeError

C6_TwoDeclarations ==
    pc = "prompt" =>
        \A f \in {"add", "x"}, a \in TypeNames, b \in TypeNames, c \in TypeNames, d \in TypeNames :
            LET first == EnvAfter(<<"declare_func", f, a, b>>, env)
                second == <<"declare_func", f, c, d>>
            IN /\ ResultIn(second, first).kind = "Ok"
               /\ SignatureIs(f, c, d, EnvAfter(second, first))

\* C6: a redeclaration of a function, built-in or not, never fails; the stored
\* signature is that of the most recent declaration and only a successful
\* declare_func of f changes the signature of f
C6_LastWriteWins ==
    /\ []C6_TwoDeclarations
    /\ [][/\ Redeclaration =>
                /\ result'.kind = "Ok"
                /\ SignatureIs(Tokens'[2], Tokens'[3], Tokens'[4], envNext)
          /\ \A f \in DOMAIN functions :
                (f \notin DOMAIN functions' \/ functions'[f] # functions[f]) =>
                    /\ pc' = "print"
                    /\ Len(Tokens') = 4
                    /\ Tokens'[1] = "declare_func"
                    /\ Tokens'[2] = f
                    /\ result'.kind = "Ok"]_vars

C6_Witness ==
    /\ Handled
    /\ nlines = 2
    /\ Tokens = <<"declare_func", "add", "Bool", "Bool">>
    /\ result.kind = "Ok"
    /\ Try(<<"call", "add", "Bool">>) = Called("add", "Bool")
    /\ Try(<<"call", "add", "Int">>) = TypeError

(***************************************************************************)
(* C7: call and show are read-only.                                        *)
(***************************************************************************)
ProbeWords == ProbeNames \cup TypeNames

C7_EveryCallAndShow ==
    pc = "prompt" =>
        \A c \in {"call", "show"}, a \in UNION {[1..n -> ProbeWords] : n \in 0..2} :
            EnvAfter(<<c>> \o a, env) = env

\* C7: a call or show line, successful or not, leaves variables and functions
\* as they were; the Environment changes only in a successful declare_var or
\* declare_func
C7_CallAndShowReadOnly ==
    /\ []C7_EveryCallAndShow
    /\ [][/\ (pc' = "print" /\ Tokens' # <<>> /\ Tokens'[1] \in {"call", "show"})
                => (variables' = variables /\ functions' = functions)
          /\ (variables' # variables \/ functions' # functions)
                => /\ pc' = "print"
                   /\ Tokens' # <<>>
                   /\ Tokens'[1] \in {"declare_var", "declare_func"}
                   /\ result'.kind = "Ok"]_vars

C7_Witness ==
    /\ Handled
    /\ nlines = 2
    /\ Tokens = <<"call", "add", "x">>
    /\ variables = [n \in {"x"} |-> "Type::Int"]
    /\ functions = new.functions
    /\ result = Called("add", "Int")

(***************************************************************************)
(* C8: show of a declared and of an undeclared name.                       *)
(***************************************************************************)
\* r is what `show n` returns in e
ShowOutcome(n, r, e) ==
    LET declared == n \in DOMAIN e.variables \cup DOMAIN e.functions
    IN /\ r.kind = "Ok" <=> declared
       /\ r = UndeclaredVariable <=> ~declared

\* C8: `show n` succeeds exactly when n is a variable or a function, and fails
\* with UndeclaredVariable exactly when it is neither
C8_ShowDeclared ==
    /\ pc = "prompt" =>
        \A n \in ProbeNames \cup BuiltinNames \cup ArgWords :
            ShowOutcome(n, Try(<<"show", n>>), env)
    /\ (Handled /\ Len(Tokens) = 2 /\ Tokens[1] = "show")
        => ShowOutcome(Tokens[2], result, env)

C8_Witness ==
    /\ Handled
    /\ Tokens = <<"show", "x">>
    /\ "add" \in DOMAIN variables
    /\ result = UndeclaredVariable
    /\ Try(<<"show", "add">>).kind = "Ok"

(***************************************************************************)
(* C9: a wrong number of argument tokens is a TypeError.                   *)
(***************************************************************************)
\* the command word and the number of argument tokens do not fit
WrongCount(tokens) ==
    /\ tokens # <<>>
    /\ \/ tokens[1] = "declare_var" /\ Len(tokens) - 1 # 2
       \/ tokens[1] = "declare_func" /\ Len(tokens) - 1 # 3
       \/ tokens[1] = "show" /\ Len(tokens) - 1 # 1
       \/ tokens[1] = "call" /\ Len(tokens) - 1 = 0

\* C9: declare_var with other than 2 arguments, declare_func with other than 3,
\* show with other than 1 and call without a function name fail with TypeError,
\* whatever the tokens are
C9_WrongCountIsTypeError ==
    /\ pc = "prompt" =>
        \A c \in CommandWords, a \in UNION {[1..n -> {"Int", "x"}] : n \in 0..4} :
            WrongCount(<<c>> \o a) => Try(<<c>> \o a) = TypeError
    /\ (Handled /\ WrongCount(Tokens)) => result = TypeError

C9_Witness ==
    /\ Handled
    /\ Tokens = <<"declare_var", "x", "Int", "Bool">>
    /\ result = TypeError
    /\ Try(<<"show", "x", "x">>) = TypeError
    /\ Try(<<"show", "x">>).kind = "Ok"

(***************************************************************************)
(* C10: a line without token.                                              *)
(***************************************************************************)
\* lines of whitespace only
BlankProbes == {<<>>, <<" ">>, <<" ", " ">>, <<"\n">>, <<" ", "\n">>}

C10_EveryBlankLine ==
    pc = "prompt" =>
        \A line \in BlankProbes : process_input(line, env) = Return(Ok(""), env)

\* C10: a line with no token returns the empty success result and leaves
\* variables and functions unchanged
C10_EmptyLineIsNoOp ==
    /\ []C10_EveryBlankLine
    /\ [][(pc' = "print" /\ Tokens' = <<>>)
            => /\ result' = Ok("")
               /\ variables' = variables
               /\ functions' = functions]_vars

C10_Witness ==
    /\ Handled
    /\ nlines = 2
    /\ Tokens = <<>>
    /\ result = Ok("")
    /\ DOMAIN variables # {}

(***************************************************************************)
(* C11: a line whose first token is no command.                            *)
(***************************************************************************)
\* first words that are no command: other words, declared names, the command
\* words in another case, a sentinel followed by more
NoCommandProbes == {"nonsense_command", "add", "x", "Int", "Call", "SHOW", "declare", "quit"}

\* C11: a line whose first token is not declare_var, declare_func, call or show
\* fails with TypeError, whatever tokens follow and also when the first token
\* is a declared name
C11_UnknownCommandIsTypeError ==
    /\ pc = "prompt" =>
        \A c \in NoCommandProbes, a \in ProbeArgSeqs :
            (c # "quit" \/ a # <<>>) =>
                process_input(Join(<<c>> \o a), env) = Return(TypeError, env)
    /\ (Handled /\ Tokens # <<>> /\ Tokens[1] \notin CommandWords)
        => result = TypeError

C11_Witness ==
    /\ Handled
    /\ Tokens = <<"nonsense_command", "x", "Int">>
    /\ "x" \in DOMAIN variables
    /\ result = TypeError
    /\ Try(<<"x", "Int">>) = TypeError

(***************************************************************************)
(* C12: a call argument that does not resolve.                             *)
(***************************************************************************)
\* the step handles a call with an argument token that is neither a type
\* literal nor a variable
CallWithUnresolved ==
    /\ pc' = "print"
    /\ Len(Tokens') >= 3
    /\ Tokens'[1] = "call"
    /\ \E i \in 3..Len(Tokens') : ~Resolves(Tokens'[i], env)

C12_EveryCall ==
    pc = "prompt" =>
        \A f \in ProbeNames, args \in ProbeArgSeqs :
            (\E i \in 1..Len(args) : ~Resolves(args[i], env))
                => Try(<<"call", f>> \o args) = UndeclaredVariable

\* C12: a call with an argument token that is neither a type literal nor a key
\* of variables fails with UndeclaredVariable, whether or not the function is
\* declared and whatever the number of arguments: the arguments are resolved
\* before the function is looked up and before the arity is checked
C12_UnresolvedArgument ==
    /\ []C12_EveryCall
    /\ [][CallWithUnresolved => result' = UndeclaredVariable]_vars

C12_Witness ==
    /\ Handled
    /\ Tokens = <<"call", "x", "Int", "add">>
    /\ "x" \notin DOMAIN functions
    /\ "add" \notin DOMAIN variables
    /\ result = UndeclaredVariable
    /\ Try(<<"call", "add", "Int", "ghost">>) = UndeclaredVariable

(***************************************************************************)
(* C13: every signature has one parameter.                                 *)
(***************************************************************************)
\* the types the argument tokens resolve to are all there
AllResolve(args, e) == \A i \in 1..Len(args) : Resolves(args[i], e)

\* C13: every stored signature has exactly one parameter and every stored type
\* is Int, Float or Bool; a call of a declared function whose arguments all
\* resolve fails with TypeError when their number is not 1
C13_OneParameter ==
    /\ \A f \in DOMAIN functions :
        /\ Len(functions[f][2]) = 1
        /\ functions[f][1] \in Type
        /\ functions[f][2][1] \in Type
    /\ \A n \in DOMAIN variables : variables[n] \in Type
    /\ pc = "prompt" =>
        \A f \in DOMAIN functions, args \in ProbeArgSeqs :
            (Len(args) # 1 /\ AllResolve(args, env))
                => Try(<<"call", f>> \o args) = TypeError
    /\ (/\ Handled
        /\ Len(Tokens) >= 2
        /\ Tokens[1] = "call"
        /\ Tokens[2] \in DOMAIN functions
        /\ Len(Tokens) # 3
        /\ AllResolve(SubSeq(Tokens, 3, Len(Tokens)), env))
       => result = TypeError

C13_Witness ==
    /\ Handled
    /\ nlines = 2
    /\ Tokens = <<"call", "x", "Int", "Bool">>
    /\ "x" \in DOMAIN functions
    /\ functions["x"] = <<"Type::Bool", <<"Type::Int">>>>
    /\ result = TypeError
    /\ Try(<<"call", "x">>) = TypeError

(***************************************************************************)
(* C14: the variables and the functions are two namespaces.                *)
(***************************************************************************)
\* the step handles a successful command of this word
Succeeds(word) ==
    /\ pc' = "print"
    /\ Tokens' # <<>>
    /\ Tokens'[1] = word
    /\ result'.kind = "Ok"

\* what `call f t` returns in e for a type name t when f is a function of e
CallAgainstSignature(f, t, e) ==
    IF e.functions[f][2] = <<TypeNamed(t)>>
    THEN Ok("Called function " \o f \o " with return type " \o Debug(e.functions[f][1]))
    ELSE TypeError

C14_NameInBoth ==
    pc = "prompt" =>
        /\ \A n \in DOMAIN variables \cap DOMAIN functions :
            /\ Try(<<"show", n>>) = Ok(n \o " :: " \o Debug(variables[n]))
            /\ \A t \in TypeNames : Try(<<"call", n, t>>) = CallAgainstSignature(n, t, env)
        /\ \A n \in ProbeNames, t \in TypeNames :
            /\ EnvAfter(<<"declare_var", n, t>>, env).functions = functions
            /\ \A u \in TypeNames :
                EnvAfter(<<"declare_func", n, t, u>>, env).variables = variables

\* C14: a name may be a variable and a function at once; declare_var never
\* changes functions and declare_func never changes variables; show of a name
\* in both renders the variable and call is checked against the function
C14_IndependentNamespaces ==
    /\ []C14_NameInBoth
    /\ [][/\ Succeeds("declare_var") => functions' = functions
          /\ Succeeds("declare_func") => variables' = variables]_vars

C14_Witness ==
    /\ Handled
    /\ nlines = 2
    /\ Tokens = <<"declare_func", "x", "Bool", "Int">>
    /\ result.kind = "Ok"
    /\ variables = [n \in {"x"} |-> "Type::Int"]
    /\ Try(<<"show", "x">>) = Ok("x :: Int")
    /\ Try(<<"call", "x", "Bool">>) = Called("x", "Int")
    /\ Try(<<"call", "x", "x">>) = TypeError

(***************************************************************************)
(* C15: a declaration is a single-key upsert.                              *)
(***************************************************************************)
\* the map m with the value v at key k and every other entry as it is
Upsert(m, k, v) == [x \in DOMAIN m \cup {k} |-> IF x = k THEN v ELSE m[x]]

C15_EveryDeclaration ==
    pc = "prompt" =>
        \A n \in ProbeNames, t \in TypeNames :
            /\ EnvAfter(<<"declare_var", n, t>>, env)
                = [variables |-> Upsert(variables, n, TypeNamed(t)), functions |-> functions]
            /\ \A u \in TypeNames :
                EnvAfter(<<"declare_func", n, t, u>>, env)
                    = [variables |-> variables,
                       functions |-> Upsert(functions, n, <<TypeNamed(u), <<TypeNamed(t)>>>>)]

\* C15: a successful `declare_var n T` sets variables[n] to T and leaves every
\* other variable and all functions unchanged; a successful
\* `declare_func f A B` sets functions[f] to (B, [A]) and leaves every other
\* function and all variables unchanged
C15_SingleKeyUpsert ==
    /\ []C15_EveryDeclaration
    /\ [][/\ Succeeds("declare_var") =>
                /\ variables' = Upsert(variables, Tokens'[2], TypeNamed(Tokens'[3]))
                /\ functions' = functions
          /\ Succeeds("declare_func") =>
                /\ functions' = Upsert(functions, Tokens'[2],
                                       <<TypeNamed(Tokens'[4]), <<TypeNamed(Tokens'[3])>>>>)
                /\ variables' = variables]_vars

C15_Witness ==
    /\ Handled
    /\ nlines = 2
    /\ Tokens = <<"declare_var", "x", "Bool">>
    /\ result = Ok("x :: Bool")
    /\ variables = [n \in {"add", "x"} |-> IF n = "add" THEN "Type::Int" ELSE "Type::Bool"]
    /\ functions = new.functions

(***************************************************************************)
(* C16: a type literal is never looked up as a variable.                   *)
(***************************************************************************)
\* the Type an argument token stands for in e: the type it names, else the
\* type of the variable of that name
ArgumentType(token, e) ==
    IF token \in TypeNames THEN TypeNamed(token) ELSE e.variables[token]

\* what `call f token` returns in e when f is a function and the token resolves
CallWithToken(f, token, e) ==
    IF e.functions[f][2] = <<ArgumentType(token, e)>>
    THEN Ok("Called function " \o f \o " with return type " \o Debug(e.functions[f][1]))
    ELSE TypeError

C16_EveryArgument ==
    pc = "prompt" =>
        \A f \in DOMAIN functions, token \in TypeNames \cup DOMAIN variables :
            Try(<<"call", f, token>>) = CallWithToken(f, token, env)

\* C16: an argument token that is a type literal has that Type, also when a
\* variable of that name is declared with another type; any other token has
\* the current type of the variable of that name
C16_LiteralBeforeVariable ==
    /\ C16_EveryArgument
    /\ (/\ Handled
        /\ Len(Tokens) = 3
        /\ Tokens[1] = "call"
        /\ Tokens[2] \in DOMAIN functions
        /\ Resolves(Tokens[3], env))
       => result = CallWithToken(Tokens[2], Tokens[3], env)

C16_Witness ==
    /\ Handled
    /\ nlines = 2
    /\ Tokens = <<"call", "add", "Int">>
    /\ variables = [n \in {"Int"} |-> "Type::Bool"]
    /\ result = Called("add", "Int")
    /\ Try(<<"call", "and", "Int">>) = TypeError

(***************************************************************************)
(* C17: type tokens are matched exactly.                                   *)
(***************************************************************************)
\* tokens that are no type name: other case, a prefix, names
NoTypeProbes == BadTypeTokens \cup {"float", "BOOL", "bool", "add"}

\* the step handles a declaration with the right number of tokens and a type
\* token that is no type name
DeclarationWithBadType ==
    /\ pc' = "print"
    /\ \/ /\ Len(Tokens') = 3
          /\ Tokens'[1] = "declare_var"
          /\ Tokens'[3] \notin TypeNames
       \/ /\ Len(Tokens') = 4
          /\ Tokens'[1] = "declare_func"
          /\ (Tokens'[3] \notin TypeNames \/ Tokens'[4] \notin TypeNames)

C17_EveryBadToken ==
    pc = "prompt" =>
        \A n \in ProbeNames, bad \in NoTypeProbes \cup (DOMAIN variables \ TypeNames) :
            /\ process_input(Join(<<"declare_var", n, bad>>), env) = Return(TypeError, env)
            /\ \A t \in TypeNames \cup {bad} :
                /\ process_input(Join(<<"declare_func", n, bad, t>>), env)
                    = Return(TypeError, env)
                /\ process_input(Join(<<"declare_func", n, t, bad>>), env)
                    = Return(TypeError, env)

\* C17: declare_var and declare_func fail with TypeError and declare nothing
\* when a type token is not exactly Int, Float or Bool, a token in another case
\* and the name of a declared variable included
C17_ExactTypeNames ==
    /\ []C17_EveryBadToken
    /\ [][DeclarationWithBadType =>
            /\ result' = TypeError
            /\ variables' = variables
            /\ functions' = functions]_vars

C17_Witness ==
    /\ Handled
    /\ Tokens = <<"declare_var", "add", "x">>
    /\ "x" \in DOMAIN variables
    /\ "add" \notin DOMAIN variables
    /\ result = TypeError
    /\ Try(<<"declare_var", "add", "int">>) = TypeError

(***************************************************************************)
(* C18: names are never removed.                                           *)
(***************************************************************************)
\* the names whose show is followed over a step
ShowNames == ProbeNames \cup ArgWords

C18_BuiltinsStay ==
    /\ BuiltinNames \subseteq DOMAIN functions
    /\ pc = "prompt" =>
        \A f \in BuiltinNames, args \in ProbeArgSeqs :
            AllResolve(args, env) => Try(<<"call", f>> \o args) # UndeclaredFunction
    /\ (/\ Handled
        /\ Len(Tokens) >= 2
        /\ Tokens[1] = "call"
        /\ Tokens[2] \in BuiltinNames)
       => result # UndeclaredFunction

\* C18: the key sets of variables and of functions only grow; the built-in
\* names stay functions, so a call of one never fails with UndeclaredFunction;
\* a show that succeeds still succeeds after every step
C18_NamesAreKept ==
    /\ []C18_BuiltinsStay
    /\ [][/\ DOMAIN variables \subseteq DOMAIN variables'
          /\ DOMAIN functions \subseteq DOMAIN functions'
          /\ (variables' # variables \/ functions' # functions) =>
                \A n \in ShowNames :
                    Try(<<"show", n>>).kind = "Ok" => TryNext(<<"show", n>>).kind = "Ok"]_vars

C18_Witness ==
    /\ Handled
    /\ nlines = 2
    /\ Tokens = <<"declare_func", "add", "Bool", "Bool">>
    /\ result.kind = "Ok"
    /\ DOMAIN variables = {"add"}
    /\ DOMAIN functions = BuiltinNames
    /\ Try(<<"show", "add">>).kind = "Ok"
    /\ Try(<<"call", "add", "Int">>) = TypeError

(***************************************************************************)
(* C19: show of a function repeats the confirmation of its declaration.    *)
(***************************************************************************)
\* the confirmation of `declare_func f a b`
Confirmation(f, a, b) == Ok(f \o " :: " \o a \o " -> " \o b)

C19_EveryDeclaration ==
    pc = "prompt" =>
        \A f \in ProbeNames, a \in TypeNames, b \in TypeNames :
            LET declare == <<"declare_func", f, a, b>>
                shown == ResultIn(<<"show", f>>, EnvAfter(declare, env))
            IN /\ ResultIn(declare, env) = Confirmation(f, a, b)
               /\ f \notin DOMAIN variables => shown = Confirmation(f, a, b)
               /\ f \in DOMAIN variables => shown # Confirmation(f, a, b)

\* C19: right after a successful `declare_func f A B`, `show f` returns the
\* text of the confirmation, `f :: A -> B`, when f is no variable, and another
\* text when f is a variable
C19_ShowRepeatsConfirmation ==
    /\ C19_EveryDeclaration
    /\ (Handled /\ Len(Tokens) = 4 /\ Tokens[1] = "declare_func" /\ result.kind = "Ok")
        => /\ result = Confirmation(Tokens[2], Tokens[3], Tokens[4])
           /\ Tokens[2] \notin DOMAIN variables => Try(<<"show", Tokens[2]>>) = result
           /\ Tokens[2] \in DOMAIN variables => Try(<<"show", Tokens[2]>>) # result

C19_Witness ==
    /\ Handled
    /\ Tokens = <<"declare_func", "x", "Int", "Bool">>
    /\ "x" \notin DOMAIN variables
    /\ result = Ok("x :: Int -> Bool")
    /\ Try(<<"show", "x">>) = Ok("x :: Int -> Bool")

(***************************************************************************)
(* C20: only a sentinel ends the session.                                  *)
(***************************************************************************)
\* the trimmed lines that are exactly `quit` or `exit`
Sentinels == {<<"quit">>, <<"exit">>}

C20_SessionState ==
    /\ pc \in {"prompt", "print", "done"}
    /\ pc = "print" => (result.kind \in {"Ok", "Err"} /\ input \notin Sentinels)
    /\ pc = "done" => (input \in Sentinels /\ result = NoResult)

\* C20: whatever the interpreter returns, the driver goes back to read the next
\* line with the Environment as the interpreter left it; the loop ends only at
\* a line that is exactly `quit` or `exit` once trimmed, and that line is not
\* handed to the interpreter: it changes nothing and yields no result
C20_OnlySentinelEnds ==
    /\ []C20_SessionState
    /\ [][/\ pc = "print" =>
                /\ pc' = "prompt"
                /\ variables' = variables
                /\ functions' = functions
          /\ pc' = "done" =>
                /\ pc = "prompt"
                /\ input' \in Sentinels
                /\ variables' = variables
                /\ functions' = functions
                /\ result' = NoResult
          /\ (pc = "prompt" /\ input' \in Sentinels) => pc' = "done"
          /\ pc = "done" => pc' = "done"]_vars

C20_Witness ==
    /\ pc = "done"
    /\ nlines = 2
    /\ input = <<"exit">>
    /\ DOMAIN variables = {"x"}
    /\ result = NoResult

====
